---- MODULE Spec2Model ----
(***************************************************************************)
(* Model of tools/arisa/src/crawler.py: class Crawler (crawl, parse,       *)
(* get_page, safe_get, img_download) over one Website description.         *)
(*                                                                         *)
(* Strings are sequences of character codes, so that concatenation, the    *)
(* newline join of safe_get and the regular-expression search for "png"    *)
(* are computed, not assumed.                                              *)
(***************************************************************************)
EXTENDS Integers, Sequences, FiniteSets, TLC

VARIABLES
    absolute_url,   \* Website.absolute_url of self.site
    site_pages,     \* the remote site: anchors of the seed page as served at the k-th crawl()
    kindOf,         \* the remote site: kind of the link page behind a URL (by parity of its last character)
    visited,        \* Crawler.visited
    images_path,    \* Crawler.images_path
    pc,             \* position of the caller: "idle", "loop", "parse" (in crawl), "download" (in img_download)
    call,           \* the method called last on the Crawler: "none", "crawl", "img_download"
    outcome,        \* how that call ended: "none" (not yet), "returned", "raised"
    runs,           \* number of crawl() calls started
    downloads,      \* number of img_download() calls started
    target_pages,   \* crawl(): hrefs of the anchors found on the seed page, in document order
    idx,            \* crawl(): position of the for loop in target_pages
    count,          \* crawl(): the local counter `count`
    visited0,       \* history: value of visited when the current crawl() was called
    queue,          \* img_download(): the enumeration of images_path, in iteration order
    i,              \* img_download(): the index of enumerate()
    files,          \* the destination directory: records [index, url], file <index>.png holding the bytes of url
    dir_exists,     \* whether save_dir exists
    reported,       \* history: the Contents printed, in order
    log,            \* history: GET requests, insertions into visited, and sleeps, in order
    workers,        \* threads that called crawl() on the one Crawler: each one's position and locals
    heap,           \* the set objects allocated so far, by address
    crawlers,       \* the Crawler instances constructed so far: the addresses their fields hold
    acted           \* the Crawler instance the last call was made on (0: none)

vars == <<absolute_url, site_pages, kindOf, visited, images_path, pc, call, outcome, runs,
          downloads, target_pages, idx, count, visited0, queue, i, files, dir_exists,
          reported, log, workers, heap, crawlers, acted>>

\* the state of the many-threads and many-instances views, which the calls on one
\* Crawler by one caller leave alone
others == <<workers, heap, crawlers, acted>>

-----------------------------------------------------------------------------
(* Bounds of the exploration *)

MaxLinks == 12      \* longest run of periodic anchors on a seed page
MaxRuns == 2        \* crawl() calls on one Crawler (over short seed pages)
MaxDownloads == 1   \* img_download() calls on one Crawler
MaxCrawlers == 2    \* Crawler instances constructed

-----------------------------------------------------------------------------
(* Strings *)

\* Python's None as returned by get_page
None == [ok |-> FALSE, title |-> << >>, body |-> << >>, anchors |-> << >>]

EmptyStr == <<>>

\* Website.url: the seed URL ("h")
SeedURL == <<104>>

\* the href of the k-th distinct link of the site ("/" followed by one character)
H(k) == <<47, k>>

\* hrefs of anchors found on link pages: "a.png", "xpng", "c.jpg"
APng == <<97, 46, 112, 110, 103>>
XPng == <<120, 112, 110, 103>>
CJpg == <<99, 46, 106, 112, 103>>

Last(s) == s[Len(s)]

RECURSIVE Join(_, _)
\* sep.join(strs)
Join(strs, sep) ==
    IF Len(strs) = 0 THEN EmptyStr
    ELSE IF Len(strs) = 1 THEN strs[1]
    ELSE strs[1] \o sep \o Join(Tail(strs), sep)

\* the elements of sequence s, as a set
Range(s) == { s[k] : k \in 1..Len(s) }

-----------------------------------------------------------------------------
(* The remote site *)

\* a page: the texts of the elements the title and body selectors match, and
\* the hrefs of its anchors, in document order
PageKinds ==
    [ good     |-> [ok |-> TRUE, title |-> << <<84>> >>, body |-> << <<66>>, <<66>> >>,
                    anchors |-> <<APng, CJpg, APng>>],
      untitled |-> [ok |-> TRUE, title |-> << >>, body |-> << <<66>> >>,
                    anchors |-> <<XPng, APng>>],
      blank    |-> [ok |-> TRUE, title |-> << <<84>> >>, body |-> << EmptyStr >>,
                    anchors |-> <<XPng>>],
      newline  |-> [ok |-> TRUE, title |-> << EmptyStr, EmptyStr >>, body |-> << <<66>> >>,
                    anchors |-> << >>] ]

Kinds == {"good", "down", "untitled", "blank", "newline"}

\* n anchors cycling through the first p links of the site
Periodic(n, p) == [k \in 1..n |-> H(((k - 1) % p) + 1)]

LongPages == { Periodic(n, p) : n \in 0..MaxLinks, p \in {1, 2, MaxLinks} }

ShortPages == { << >>, <<H(1)>>, <<H(1), H(2), H(1)>>, <<SeedURL, H(2)>>, <<EmptyStr, H(3)>> }

LaterPages == { <<H(2), H(1), H(2)>>, <<H(3), SeedURL>> }

\* the seed page served at each successive crawl(): one long page, or a short
\* page followed by one of the later pages per further run
Scenarios ==
    { <<p>> : p \in LongPages }
      \cup { <<p>> \o q : p \in ShortPages, q \in [1..(MaxRuns - 1) -> LaterPages] }

\* what requests.get + BeautifulSoup give for a URL: a page, or None when
\* requests raises a RequestException (an unreachable page, or a URL without
\* a schema such as the empty string)
Remote(url, seedAnchors) ==
    IF url = EmptyStr THEN None
    ELSE IF url = SeedURL
         THEN [ok |-> TRUE, title |-> << <<84>> >>, body |-> << <<66>> >>, anchors |-> seedAnchors]
    ELSE IF kindOf[Last(url) % 2] = "down" THEN None
    ELSE PageKinds[kindOf[Last(url) % 2]]

-----------------------------------------------------------------------------
(* Crawler: pure parts *)

\* get_page(url): the page, or None on RequestException
get_page(url, seedAnchors) == Remote(url, seedAnchors)

\* safe_get(page_obj, selector), given the texts of the selected elements
safe_get(selected_elems) ==
    IF Len(selected_elems) > 0 THEN Join(selected_elems, <<10>>) ELSE EmptyStr

\* re.compile('.*png') searched in an href
MatchesPng(href) ==
    \E k \in 1..(Len(href) - 2) : SubSeq(href, k, k + 2) = <<112, 110, 103>>

\* parse(): set([img.attrs['href'] for img in bs.find_all('a', {'href': re.compile('.*png')})])
FindImages(anchors) == { h \in Range(anchors) : MatchesPng(h) }

\* a parse() that goes on whatever get_page returned
FetchedAlways(bs) == TRUE

\* parse(): `if bs:`
Fetched(bs) == bs # None

\* a gate that lets a page through with a title or a body
GateEither(title, body) == title # EmptyStr \/ body # EmptyStr

\* parse(): `if (title != '') and (body != '')`
Gate(title, body) == title # EmptyStr /\ body # EmptyStr

\* a resolution that prepends the seed URL whatever absolute_url says
ResolveAlways(href) == SeedURL \o href

\* crawl(): the URL handed to parse()
Resolve(href) == IF ~absolute_url THEN SeedURL \o href ELSE href

\* a membership test on the resolved URL
NotVisitedResolved(href) == Resolve(href) \notin visited

\* a membership test that lets a link through again once its fetch has failed
NotVisitedOrFailed(href) ==
    \/ href \notin visited
    \/ \E k \in DOMAIN log :
         log[k].ev = "get" /\ log[k].what = "link" /\ log[k].href = href /\ ~log[k].ok

\* crawl(): `if target_page not in self.visited`
NotVisited(href) == href \notin visited

\* an insertion of the resolved URL
MarkVisitedResolved(href) == visited \cup {Resolve(href)}

\* an insertion that replaces the set
MarkOnly(href) == {href}

\* crawl(): self.visited.add(target_page)
MarkVisited(href) == visited \cup {href}

\* an assignment in place of the union
Overwrite(imgs) == imgs

\* parse(): self.images_path |= images_path
Accumulate(imgs) == images_path \cup imgs

\* a cadence that starts with the first link
SleepsFromFirst(c) == c % 10 = 1

\* crawl(): `if count % 10 == 0`, time.sleep(1)
CrawlSleeps(c) == c % 10 = 0

\* img_download(): `if i % 10 == 0`, time.sleep(1)
DownloadSleeps(k) == k % 10 = 0

\* an enumeration that starts at 1
FileIndexFromOne(k) == k + 1

\* img_download(): the index in f'{i}.png', for the k-th item of enumerate() counted from 0
FileIndex(k) == k

-----------------------------------------------------------------------------
(* History records *)

\* run: the number of the crawl() call, or of the img_download() call for what = "image"
GetEv(what, href, url, ok) ==
    [ev |-> "get", run |-> IF what = "image" THEN downloads ELSE runs, what |-> what,
     href |-> href, url |-> url, ok |-> ok, n |-> 0]

AddEv(href) ==
    [ev |-> "add", run |-> runs, what |-> "link", href |-> href, url |-> href, ok |-> TRUE, n |-> 0]

SleepEv(what, n) ==
    [ev |-> "sleep", run |-> IF what = "image" THEN downloads ELSE runs, what |-> what,
     href |-> EmptyStr, url |-> EmptyStr, ok |-> TRUE, n |-> n]

-----------------------------------------------------------------------------
Init ==
    /\ absolute_url \in BOOLEAN
    /\ site_pages \in Scenarios
    /\ kindOf \in [{0, 1} -> Kinds]
    /\ visited = {}
    /\ images_path = {}
    /\ pc = "idle"
    /\ call = "none"
    /\ outcome = "none"
    /\ runs = 0
    /\ downloads = 0
    /\ target_pages = << >>
    /\ idx = 1
    /\ count = 0
    /\ visited0 = {}
    /\ queue = << >>
    /\ i = 0
    /\ files = {}
    /\ dir_exists = FALSE
    /\ reported = << >>
    /\ log = << >>
    /\ workers = << >>
    /\ heap = << >>
    /\ crawlers = << >>
    /\ acted = 0

-----------------------------------------------------------------------------
(* crawl() *)

\* time.sleep(1) after the counter reached c, when the cadence says so
Throttle(what, due, c) == IF due THEN <<SleepEv(what, c)>> ELSE << >>

\* crawl() is called: the seed page is fetched and scanned for anchors.
\* When get_page returns None, bs.find_all raises AttributeError out of crawl().
Crawl ==
    /\ pc = "idle"
    /\ runs < Len(site_pages)
    /\ \E up \in BOOLEAN :
         LET bs == IF up THEN get_page(SeedURL, site_pages[runs + 1]) ELSE None
         IN /\ runs' = runs + 1
            /\ visited0' = visited
            /\ log' = Append(log, [GetEv("seed", EmptyStr, SeedURL, up) EXCEPT !.run = runs + 1])
            /\ call' = "crawl"
            /\ IF bs = None
               THEN /\ outcome' = "raised"
                    /\ UNCHANGED <<pc, target_pages, idx, count>>
               ELSE /\ target_pages' = bs.anchors
                    /\ idx' = 1
                    /\ count' = 0
                    /\ pc' = "loop"
                    /\ outcome' = "none"
    /\ UNCHANGED others
    /\ UNCHANGED <<absolute_url, site_pages, kindOf, visited, images_path, downloads,
                   queue, i, files, dir_exists, reported>>

\* loop body, the anchor's href is new: it is added to visited, parse() comes next
Visit ==
    /\ pc = "loop"
    /\ idx <= Len(target_pages)
    /\ NotVisited(target_pages[idx])
    /\ visited' = MarkVisited(target_pages[idx])
    /\ log' = Append(log, AddEv(target_pages[idx]))
    /\ pc' = "parse"
    /\ UNCHANGED others
    /\ UNCHANGED <<absolute_url, site_pages, kindOf, images_path, call, outcome, runs, downloads,
                   target_pages, idx, count, visited0, queue, i, files, dir_exists, reported>>

\* loop body, the anchor's href is already in visited: only the counter and the throttle act
Skip ==
    /\ pc = "loop"
    /\ idx <= Len(target_pages)
    /\ ~NotVisited(target_pages[idx])
    /\ count' = count + 1
    /\ log' = log \o Throttle("link", CrawlSleeps(count + 1), count + 1)
    /\ idx' = idx + 1
    /\ UNCHANGED others
    /\ UNCHANGED <<absolute_url, site_pages, kindOf, visited, images_path, pc, call, outcome, runs,
                   downloads, target_pages, visited0, queue, i, files, dir_exists, reported>>

\* parse(url) of the resolved href, then the counter and the throttle of the loop
\* body. Past `if bs:`, bs.select on None raises AttributeError out of crawl().
Parse ==
    /\ pc = "parse"
    /\ LET href == target_pages[idx]
           url == Resolve(href)
           bs == get_page(url, site_pages[runs])
           title == safe_get(bs.title)
           body == safe_get(bs.body)
           imgs == FindImages(bs.anchors)
       IN IF Fetched(bs) /\ bs = None
          THEN /\ log' = Append(log, GetEv("link", href, url, FALSE))
               /\ pc' = "idle"
               /\ outcome' = "raised"
               /\ target_pages' = << >>
               /\ idx' = 1
               /\ count' = 0
               /\ UNCHANGED <<images_path, reported>>
          ELSE /\ images_path' = IF Fetched(bs) THEN Accumulate(imgs) ELSE images_path
               /\ reported' = IF Fetched(bs) /\ Gate(title, body)
                              THEN Append(reported, [run |-> runs, url |-> url, title |-> title,
                                                     body |-> body, img |-> imgs])
                              ELSE reported
               /\ log' = Append(log, GetEv("link", href, url, bs # None))
                           \o Throttle("link", CrawlSleeps(count + 1), count + 1)
               /\ count' = count + 1
               /\ idx' = idx + 1
               /\ pc' = "loop"
               /\ UNCHANGED <<outcome, target_pages>>
    /\ UNCHANGED others
    /\ UNCHANGED <<absolute_url, site_pages, kindOf, visited, call, runs, downloads,
                   visited0, queue, i, files, dir_exists>>

\* the for loop is exhausted: crawl() returns
Return ==
    /\ pc = "loop"
    /\ idx > Len(target_pages)
    /\ pc' = "idle"
    /\ outcome' = "returned"
    /\ target_pages' = << >>
    /\ idx' = 1
    /\ count' = 0
    /\ UNCHANGED others
    /\ UNCHANGED <<absolute_url, site_pages, kindOf, visited, images_path, call, runs,
                   downloads, visited0, queue, i, files, dir_exists, reported, log>>

-----------------------------------------------------------------------------
(* img_download(save_dir) *)

\* the orders in which a set may be enumerated
Orders(S) == { q \in [1..Cardinality(S) -> S] : Range(q) = S }

\* img_download() is called: save_dir is created when missing, the loop starts
ImgDownload ==
    /\ pc = "idle"
    /\ downloads < MaxDownloads
    /\ downloads' = downloads + 1
    /\ dir_exists' = TRUE
    /\ \E q \in Orders(images_path) : queue' = q
    /\ i' = 0
    /\ pc' = "download"
    /\ call' = "img_download"
    /\ outcome' = "none"
    /\ UNCHANGED others
    /\ UNCHANGED <<absolute_url, site_pages, kindOf, visited, images_path, runs, target_pages,
                   idx, count, visited0, files, reported, log>>

\* one iteration: requests.get(path), write <i>.png, throttle. A RequestException
\* of requests.get is not caught: it leaves img_download().
DownloadOne ==
    /\ pc = "download"
    /\ i < Len(queue)
    /\ \E up \in BOOLEAN :
         LET path == queue[i + 1]
         IN IF up
            THEN /\ files' = { f \in files : f.index # FileIndex(i) }
                               \cup {[index |-> FileIndex(i), url |-> path]}
                 /\ log' = Append(log, GetEv("image", path, path, TRUE))
                             \o Throttle("image", DownloadSleeps(i), i)
                 /\ i' = i + 1
                 /\ UNCHANGED <<pc, outcome, queue>>
            ELSE /\ log' = Append(log, GetEv("image", path, path, FALSE))
                 /\ pc' = "idle"
                 /\ outcome' = "raised"
                 /\ queue' = << >>
                 /\ i' = 0
                 /\ UNCHANGED files
    /\ UNCHANGED others
    /\ UNCHANGED <<absolute_url, site_pages, kindOf, visited, images_path, call, runs,
                   downloads, target_pages, idx, count, visited0, dir_exists, reported>>

\* the enumeration is exhausted: img_download() returns
DownloadReturn ==
    /\ pc = "download"
    /\ i >= Len(queue)
    /\ pc' = "idle"
    /\ outcome' = "returned"
    /\ queue' = << >>
    /\ i' = 0
    /\ UNCHANGED others
    /\ UNCHANGED <<absolute_url, site_pages, kindOf, visited, images_path, call, runs,
                   downloads, target_pages, idx, count, visited0, files, dir_exists, reported,
                   log>>

-----------------------------------------------------------------------------
Next ==
    \/ Crawl
    \/ Visit
    \/ Skip
    \/ Parse
    \/ Return
    \/ ImgDownload
    \/ DownloadOne
    \/ DownloadReturn

Spec == Init /\ [][Next]_vars

-----------------------------------------------------------------------------
(* Reading the history *)

\* positions in log of the GET requests of one kind
Gets(what) == { k \in DOMAIN log : log[k].ev = "get" /\ log[k].what = what }

\* positions in log of the page GETs (seed page and link pages) of crawl() number r
PageGets(r) == { k \in Gets("seed") \cup Gets("link") : log[k].run = r }

\* positions in log of the link-page GETs of crawl() number r
LinkGets(r) == { k \in Gets("link") : log[k].run = r }

\* positions in log of the sleeps of crawl() number r
CrawlSleepsOf(r) ==
    { k \in DOMAIN log : log[k].ev = "sleep" /\ log[k].what = "link" /\ log[k].run = r }

\* positions in log of the insertions into visited
Adds == { k \in DOMAIN log : log[k].ev = "add" }

\* the Contents printed by crawl() number r
ReportedIn(r) == SelectSeq(reported, LAMBDA c : c.run = r)

\* a crawl() call has ended (by return or by an exception) and nothing was called since
CrawlEnded == call = "crawl" /\ pc = "idle"

-----------------------------------------------------------------------------
(* Claims *)

\* C1: within one crawl() run, counting the seed-page fetch and every
\* link-page fetch, no URL string is the target of more than one GET.
C1_NoUrlFetchedTwiceInRun ==
    \A r \in 1..runs : \A a, b \in PageGets(r) : log[a].url = log[b].url => a = b

\* C2: at every point of a crawl() run the number of pauses so far equals the
\* number of links fetched so far in that run divided by 10, rounded down
\* (a pause follows fetched link #10, #20, ... and occurs nowhere else).
C2_PauseEveryTenFetchedLinks ==
    \A r \in 1..runs : Cardinality(CrawlSleepsOf(r)) = Cardinality(LinkGets(r)) \div 10

\* C3: when the fetch of the seed page fails, crawl() ends normally (nothing
\* is raised to the caller), with no link fetched, nothing reported, no pause,
\* and visited and images_path as they were.
C3_SeedFailureEndsNormally ==
    (CrawlEnded /\ \E k \in PageGets(runs) : log[k].what = "seed" /\ ~log[k].ok)
        => /\ outcome = "returned"
           /\ LinkGets(runs) = {}
           /\ ReportedIn(runs) = << >>
           /\ CrawlSleepsOf(runs) = {}
           /\ visited = visited0

-----------------------------------------------------------------------------
(* What the remote site holds, read without the Crawler *)

\* the page behind the link href during crawl() number r
PageBehind(href, r) == Remote(Resolve(href), site_pages[r])

\* the selected elements hold some text once joined by newlines
YieldsText(elems) == Len(elems) >= 2 \/ \E k \in DOMAIN elems : elems[k] # EmptyStr

\* the link page behind href can be fetched and has a title and a body
Qualifies(href, r) ==
    /\ PageBehind(href, r).ok
    /\ YieldsText(PageBehind(href, r).title)
    /\ YieldsText(PageBehind(href, r).body)

\* the anchors whose link page can be fetched
WithoutFailing(anchors, r) == SelectSeq(anchors, LAMBDA h : PageBehind(h, r).ok)

RECURSIVE FirstNew(_, _)
\* the anchors left when every anchor met with its href already seen is taken away
FirstNew(anchors, seen) ==
    IF anchors = << >> THEN << >>
    ELSE IF Head(anchors) \in seen THEN FirstNew(Tail(anchors), seen)
    ELSE <<Head(anchors)>> \o FirstNew(Tail(anchors), seen \cup {Head(anchors)})

\* the URLs of the pages with title and body among the anchors, in document order
QualifyingUrls(anchors, r) ==
    LET q == SelectSeq(anchors, LAMBDA h : Qualifies(h, r))
    IN [k \in DOMAIN q |-> Resolve(q[k])]

\* the URLs of the Contents printed by crawl() number r, in order
ReportedUrls(r) == LET c == ReportedIn(r) IN [k \in DOMAIN c |-> c[k].url]

\* the anchors the current crawl() has dealt with so far
Processed ==
    IF pc \in {"loop", "parse"} THEN SubSeq(target_pages, 1, idx - 1)
    ELSE IF CrawlEnded /\ outcome = "returned" THEN site_pages[runs]
    ELSE << >>

\* a crawl() is under way past the seed fetch, or has returned
InOrAfterLoop == pc \in {"loop", "parse"} \/ (CrawlEnded /\ outcome = "returned")

-----------------------------------------------------------------------------
\* C4: a failed fetch of a link page never aborts crawl(): no exception leaves
\* crawl() once a link was fetched, every matched link gets processed, and the
\* pages reported are those reported for the seed page without the failing links.
C4_FailedLinkNeverAborts ==
    /\ (CrawlEnded /\ outcome = "raised") => LinkGets(runs) = {}
    /\ InOrAfterLoop =>
         ReportedUrls(runs) = QualifyingUrls(FirstNew(WithoutFailing(Processed, runs), visited0), runs)
    /\ (CrawlEnded /\ outcome = "returned") => Range(site_pages[runs]) \subseteq visited

C4_Witness ==
    /\ CrawlEnded
    /\ outcome = "returned"
    /\ \E a, b \in LinkGets(runs) :
         /\ a < b
         /\ ~log[a].ok
         /\ \E k \in DOMAIN reported : reported[k].run = runs /\ reported[k].url = log[b].url

\* no raw href is page-fetched twice, over all crawl() calls on the Crawler
NoHrefFetchedTwice == \A a, b \in Gets("link") : log[a].href = log[b].href => a = b

\* the reports of the current run are those of the seed page without the skipped anchors
ReportsAsIfSkippedAbsent ==
    InOrAfterLoop =>
        ReportedUrls(runs) = QualifyingUrls(FirstNew(Processed, visited0), runs)

\* the step taken from an anchor whose raw href is in visited
C5_SkipStep ==
    (pc = "loop" /\ idx <= Len(target_pages) /\ target_pages[idx] \in visited)
        => /\ visited' = visited
           /\ images_path' = images_path
           /\ reported' = reported
           /\ \A k \in DOMAIN log' : k > Len(log) => log'[k].ev # "get"

\* C5: an anchor whose raw href is already in visited is skipped: no fetch, no
\* change of visited or images_path, reports as if it were absent; and over
\* any sequence of crawl() calls each raw href is page-fetched at most once.
C5_VisitedAnchorSkipped ==
    [][C5_SkipStep /\ NoHrefFetchedTwice' /\ ReportsAsIfSkippedAbsent']_vars

C5_Witness ==
    /\ runs = 2
    /\ pc = "loop"
    /\ idx = 3
    /\ target_pages[1] \in visited0
    /\ target_pages[2] \notin visited0
    /\ Cardinality(LinkGets(2)) = 1

\* C6: an href is inserted into visited at most once, the insertion comes
\* before the GET of its page, and every link whose page fetch has begun has
\* its raw href in visited.
C6_VisitedBeforeFetch ==
    /\ \A a, b \in Adds : log[a].href = log[b].href => a = b
    /\ \A g \in Gets("link") :
         /\ log[g].href \in visited
         /\ \E a \in Adds : a < g /\ log[a].href = log[g].href
    /\ pc = "parse" => target_pages[idx] \in visited

C6_Witness ==
    /\ pc = "parse"
    /\ runs = 2
    /\ LinkGets(1) # {}
    /\ \E k \in 1..(idx - 1) : target_pages[k] \in visited0

\* the image hrefs found on the page behind a URL during crawl() number r
DiscoveredOn(url, r) == FindImages(Remote(url, site_pages[r]).anchors)

\* C7: after the first crawl() on a fresh Crawler images_path is exactly the
\* union of the image hrefs found on the link pages fetched successfully,
\* reported or not; failed pages add nothing.
C7_ImagesAreUnionOfFetchedPages ==
    (runs = 1 /\ pc \notin {"loop", "parse"})
        => images_path = UNION { DiscoveredOn(log[g].url, 1) : g \in { k \in LinkGets(1) : log[k].ok } }

C7_Witness ==
    /\ runs = 1
    /\ CrawlEnded
    /\ outcome = "returned"
    /\ Cardinality(images_path) = 2
    /\ \E g \in LinkGets(1) : ~log[g].ok
    /\ \E g \in LinkGets(1) :
         /\ log[g].ok
         /\ DiscoveredOn(log[g].url, 1) # {}
         /\ \A k \in DOMAIN reported : reported[k].url # log[g].url

\* the GET at position g of log was followed by a report of its page
WasReported(g) ==
    \E k \in DOMAIN reported : reported[k].run = log[g].run /\ reported[k].url = log[g].url

\* C8: parse() reports a Content for a fetched page exactly when the title and
\* the body selectors both yield non-empty text; an empty title or body (also
\* from zero matched elements) gives no Content and no error; the same
\* document gives the same outcome each time.
C8_ReportedIffTitleAndBody ==
    /\ \A g \in Gets("link") :
         WasReported(g) <=>
             /\ log[g].ok
             /\ YieldsText(Remote(log[g].url, site_pages[log[g].run]).title)
             /\ YieldsText(Remote(log[g].url, site_pages[log[g].run]).body)
    /\ \A k \in DOMAIN reported : reported[k].title # EmptyStr /\ reported[k].body # EmptyStr
    /\ \A g, h \in Gets("link") :
         Remote(log[g].url, site_pages[log[g].run]) = Remote(log[h].url, site_pages[log[h].run])
             => (WasReported(g) <=> WasReported(h))
    /\ (CrawlEnded /\ outcome = "raised") => LinkGets(runs) = {}

C8_Witness ==
    /\ CrawlEnded
    /\ outcome = "returned"
    /\ \E g \in LinkGets(runs) :
         /\ log[g].ok
         /\ ~WasReported(g)
         /\ Remote(log[g].url, site_pages[runs]).title = << >>
    /\ \E g \in LinkGets(runs) :
         /\ WasReported(g)
         /\ Remote(log[g].url, site_pages[runs]).title = <<EmptyStr, EmptyStr>>

\* the first crawl() of a fresh Crawler has returned, its seed page held
\* pairwise distinct hrefs, all fetchable and all with title and body
AllDistinctAllGood ==
    /\ runs = 1
    /\ CrawlEnded
    /\ outcome = "returned"
    /\ Cardinality(Range(site_pages[1])) = Len(site_pages[1])
    /\ \A h \in Range(site_pages[1]) : Qualifies(h, 1)

\* the number of link pages fetched in crawl() number r before position s of log
FetchedBefore(r, s) == Cardinality({ g \in LinkGets(r) : g < s })

\* C9: n distinct hrefs, all fetchable and all with title and body, on a fresh
\* Crawler: n contents, |visited| = n, floor(n/10) pauses, the m-th pause
\* right after the (10*m)-th link.
C9_DistinctGoodLinks ==
    AllDistinctAllGood =>
        LET n == Len(site_pages[1])
        IN /\ Len(ReportedIn(1)) = n
           /\ Cardinality(visited) = n
           /\ Cardinality(CrawlSleepsOf(1)) = n \div 10
           /\ \A s \in CrawlSleepsOf(1) :
                /\ log[s - 1].ev = "get"
                /\ FetchedBefore(1, s) % 10 = 0
           /\ \A m \in 1..(n \div 10) : \E s \in CrawlSleepsOf(1) : FetchedBefore(1, s) = 10 * m

C9_Witness ==
    /\ AllDistinctAllGood
    /\ Len(site_pages[1]) = 12
    /\ Len(ReportedIn(1)) = 12
    /\ Cardinality(CrawlSleepsOf(1)) = 1

\* C10: a failed fetch of one image does not abort img_download(): the call
\* returns, and every URL of images_path was requested, each one fetched
\* being written to the directory.
C10_FailedImageDoesNotAbort ==
    (call = "img_download" /\ pc = "idle")
        => /\ outcome = "returned"
           /\ \A u \in images_path :
                \E g \in Gets("image") :
                    /\ log[g].run = downloads
                    /\ log[g].url = u
                    /\ log[g].ok => \E f \in files : f.url = u

-----------------------------------------------------------------------------
\* positions in log of the image GETs of img_download() number d
ImageGets(d) == { k \in Gets("image") : log[k].run = d }

\* positions in log of the sleeps of img_download() number d
DownloadSleepsOf(d) ==
    { k \in DOMAIN log : log[k].ev = "sleep" /\ log[k].what = "image" /\ log[k].run = d }

\* the number of images downloaded in img_download() number d
Downloaded(d) == Cardinality({ k \in ImageGets(d) : log[k].ok })

\* C11: img_download() pauses once per 10 downloads, after the 10th, 20th, ...
\* download and nowhere else: at every point the pauses so far number the
\* downloads so far divided by 10, rounded down (none below 10 downloads).
C11_PauseEveryTenDownloads ==
    \A d \in 1..downloads : Cardinality(DownloadSleepsOf(d)) = Downloaded(d) \div 10

-----------------------------------------------------------------------------
\* the hrefs of the anchors of the seed pages served so far
SeedHrefs == UNION { Range(site_pages[r]) : r \in 1..runs }

\* the URL an href stands for under the site's absolute_url
ResolvedForm(href) == IF absolute_url THEN href ELSE SeedURL \o href

\* the anchors of the link pages fetched so far that are no anchors of a seed page
LinkPageAnchors ==
    UNION { Range(Remote(log[g].url, site_pages[log[g].run]).anchors) : g \in Gets("link") }
        \ SeedHrefs

\* C14: the crawl is single-hop: every URL crawl() fetches is the seed URL or
\* the resolved form of an href of the seed page, visited only gains hrefs of
\* the seed page, and the anchors of a fetched link page are neither fetched
\* nor inserted into visited.
C14_SingleHop ==
    /\ \A r \in 1..runs : \A g \in PageGets(r) :
         \/ log[g].url = SeedURL
         \/ \E h \in Range(site_pages[r]) : log[g].url = ResolvedForm(h)
    /\ visited \subseteq SeedHrefs
    /\ \A a \in LinkPageAnchors :
         /\ a \notin visited
         /\ \A r \in 1..runs : \A g \in PageGets(r) : log[g].url # ResolvedForm(a)

C14_Witness ==
    /\ CrawlEnded
    /\ outcome = "returned"
    /\ Cardinality(LinkGets(runs)) >= 2
    /\ APng \in LinkPageAnchors
    /\ APng \in images_path

\* C15: no retries: once the page fetch of an href has failed, no other fetch
\* is issued for that href, and the href stays in visited, so that later
\* anchors with it and later crawl() calls skip it.
C15_NoRetryAfterFailure ==
    \A g \in Gets("link") :
        ~log[g].ok =>
            /\ log[g].href \in visited
            /\ \A k \in Gets("link") : log[k].href = log[g].href => k = g

C15_Witness ==
    /\ runs = 2
    /\ CrawlEnded
    /\ outcome = "returned"
    /\ \E g \in LinkGets(1) :
         /\ ~log[g].ok
         /\ log[g].href \in Range(site_pages[2])
         /\ Cardinality({ k \in DOMAIN site_pages[1] : site_pages[1][k] = log[g].href }) = 2

\* the href holds the literal text ".png"
HoldsDotPng(href) ==
    \E k \in 1..(Len(href) - 3) : SubSeq(href, k, k + 3) = <<46, 112, 110, 103>>

\* C16: parse() collects an anchor's href exactly when it holds ".png": every
\* such anchor of a fetched link page is in images_path, and no href without
\* ".png" is ever in a page's image set or in images_path.
C16_ImagesHoldDotPng ==
    /\ \A h \in images_path : HoldsDotPng(h)
    /\ \A k \in DOMAIN reported : \A h \in reported[k].img : HoldsDotPng(h)
    /\ \A g \in Gets("link") :
         log[g].ok =>
            \A h \in Range(Remote(log[g].url, site_pages[log[g].run]).anchors) :
                HoldsDotPng(h) => h \in images_path

\* C17: the URL fetched for a link is the seed URL followed by the raw href
\* when absolute_url is false and the raw href when it is true; what visited
\* gains is the raw href of the anchor in both modes.
C17_ResolvedUrlRawVisited ==
    /\ \A g \in Gets("link") :
         /\ log[g].url = ResolvedForm(log[g].href)
         /\ log[g].href \in Range(site_pages[log[g].run])
    /\ visited = { log[a].href : a \in Adds }
    /\ \A a \in Adds : log[a].href \in Range(site_pages[log[a].run])

C17_Witness ==
    /\ ~absolute_url
    /\ CrawlEnded
    /\ outcome = "returned"
    /\ \E g \in LinkGets(runs) :
         /\ log[g].ok
         /\ log[g].url = SeedURL \o log[g].href
         /\ log[g].url \notin visited
         /\ log[g].href \in visited

\* an img_download() has returned and nothing was called since
DownloadReturned == call = "img_download" /\ pc = "idle" /\ outcome = "returned"

\* the directory holds one file per URL of images_path, indexed 0..m-1
OneFilePerImage ==
    DownloadReturned =>
        /\ { f.index : f \in files } = 0..(Cardinality(images_path) - 1)
        /\ { f.url : f \in files } = images_path
        /\ Cardinality(files) = Cardinality(images_path)

\* C19: an img_download() whose fetches all succeed writes exactly m files
\* <index>.png, index over 0..m-1, one per URL of images_path, and leaves
\* images_path and visited unchanged.
C19_OneIndexedFilePerImage ==
    [][/\ (pc = "download" \/ pc' = "download")
            => (images_path' = images_path /\ visited' = visited)
       /\ OneFilePerImage']_vars

C19_Witness ==
    /\ DownloadReturned
    /\ Cardinality(images_path) = 2
    /\ Cardinality(files) = 2

\* the accounts of a crawl() run: what visited gained and how many link pages were requested
RunAccounts ==
    /\ (CrawlEnded /\ outcome = "returned") => visited = visited0 \cup Range(site_pages[runs])
    /\ (pc = "loop" \/ (CrawlEnded /\ outcome = "returned"))
         => Cardinality(LinkGets(runs)) = Cardinality(visited \ visited0)

\* C20: over any sequence of crawl() calls visited and images_path only grow;
\* after a run whose seed fetch succeeded visited is its value before the run
\* united with the hrefs of the seed page, and the link fetches of the run
\* number the hrefs the run added to visited.
C20_GrowthAndAccounts ==
    [][/\ visited \subseteq visited'
       /\ images_path \subseteq images_path'
       /\ RunAccounts']_vars

C20_Witness ==
    /\ runs = 2
    /\ CrawlEnded
    /\ outcome = "returned"
    /\ visited0 # {}
    /\ visited # visited0
    /\ Cardinality(LinkGets(2)) = 1
    /\ images_path # {}

-----------------------------------------------------------------------------
(* crawl() alone, run to its end: once called, the interpreter goes on        *)
(* executing its statements, each of which ends (a GET returns or raises, a   *)
(* sleep lasts a second).                                                     *)

CrawlStep == Visit \/ Skip \/ Parse \/ Return

CrawlNext ==
    \/ Crawl
    \/ Visit
    \/ Skip
    \/ Parse
    \/ Return

FairCrawlSpec == Init /\ [][CrawlNext]_vars /\ WF_vars(CrawlStep)

\* the seed fetch of the current crawl() failed
SeedFailed == \E g \in PageGets(runs) : log[g].what = "seed" /\ ~log[g].ok

\* positions in log of the insertions into visited of crawl() number r
AddsOf(r) == { a \in Adds : log[a].run = r }

\* how an ended crawl() stands: nothing processed after a failed seed fetch,
\* or the whole link list processed
EndedWhole ==
    CrawlEnded =>
        \/ SeedFailed /\ LinkGets(runs) = {} /\ AddsOf(runs) = {} /\ visited = visited0
        \/ ~SeedFailed /\ outcome = "returned" /\ Range(site_pages[runs]) \subseteq visited

\* C12: every crawl() run ends, and when it has ended either the seed fetch
\* failed and no link was processed, or every href of the seed page is in
\* visited: a run never stops part-way through the link list.
C12_CrawlEndsWhole ==
    /\ (pc \in {"loop", "parse"}) ~> CrawlEnded
    /\ []EndedWhole

C12_Witness ==
    /\ CrawlEnded
    /\ ~SeedFailed
    /\ Len(site_pages[runs]) >= 10
    /\ Cardinality(LinkGets(runs)) >= 2
    /\ \E g \in LinkGets(runs) : ~log[g].ok

-----------------------------------------------------------------------------
(* Two threads calling crawl() on one Crawler. The interpreter may switch     *)
(* threads between any two statements: the test of line 163 and the           *)
(* insertion of line 164 are separate steps, and nothing locks visited.       *)

Threads == {1, 2}

\* the other variables of the one-caller view stay as constructed
CallerIdle ==
    UNCHANGED <<absolute_url, site_pages, kindOf, pc, call, outcome, runs, downloads,
                target_pages, idx, count, visited0, queue, i, files, dir_exists,
                heap, crawlers, acted>>

InitThreads ==
    /\ absolute_url \in BOOLEAN
    /\ site_pages \in { <<p>> : p \in ShortPages }
    /\ kindOf \in [{0, 1} -> Kinds]
    /\ visited = {}
    /\ images_path = {}
    /\ pc = "idle"
    /\ call = "none"
    /\ outcome = "none"
    /\ runs = 0
    /\ downloads = 0
    /\ target_pages = << >>
    /\ idx = 1
    /\ count = 0
    /\ visited0 = {}
    /\ queue = << >>
    /\ i = 0
    /\ files = {}
    /\ dir_exists = FALSE
    /\ reported = << >>
    /\ log = << >>
    /\ workers = [w \in Threads |-> [pc |-> "call", target_pages |-> << >>, idx |-> 1, count |-> 0]]
    /\ heap = << >>
    /\ crawlers = << >>
    /\ acted = 0

\* the href thread w is at
HrefOf(w) == workers[w].target_pages[workers[w].idx]

\* an event of thread w: its run field names the thread
By(w, event) == [event EXCEPT !.run = w]

\* thread w calls crawl(): seed fetch and scan
ThreadCrawl ==
    \E w \in Threads :
        /\ workers[w].pc = "call"
        /\ \E up \in BOOLEAN :
             LET bs == IF up THEN get_page(SeedURL, site_pages[1]) ELSE None
             IN /\ log' = Append(log, By(w, GetEv("seed", EmptyStr, SeedURL, up)))
                /\ workers' = [workers EXCEPT ![w] =
                                 IF bs = None
                                 THEN [@ EXCEPT !.pc = "raised"]
                                 ELSE [@ EXCEPT !.pc = "loop", !.target_pages = bs.anchors]]
        /\ UNCHANGED <<visited, images_path, reported>>
        /\ CallerIdle

\* thread w, line 163: the href is not in visited
ThreadCheck ==
    \E w \in Threads :
        /\ workers[w].pc = "loop"
        /\ workers[w].idx <= Len(workers[w].target_pages)
        /\ NotVisited(HrefOf(w))
        /\ workers' = [workers EXCEPT ![w].pc = "add"]
        /\ UNCHANGED <<visited, images_path, reported, log>>
        /\ CallerIdle

\* thread w, line 163: the href is in visited; lines 171-173
ThreadSkip ==
    \E w \in Threads :
        /\ workers[w].pc = "loop"
        /\ workers[w].idx <= Len(workers[w].target_pages)
        /\ ~NotVisited(HrefOf(w))
        /\ workers' = [workers EXCEPT ![w].count = @ + 1, ![w].idx = @ + 1]
        /\ log' = log \o [k \in DOMAIN Throttle("link", CrawlSleeps(workers[w].count + 1), workers[w].count + 1)
                            |-> By(w, Throttle("link", TRUE, workers[w].count + 1)[k])]
        /\ UNCHANGED <<visited, images_path, reported>>
        /\ CallerIdle

\* thread w, line 164: the insertion
ThreadAdd ==
    \E w \in Threads :
        /\ workers[w].pc = "add"
        /\ visited' = MarkVisited(HrefOf(w))
        /\ log' = Append(log, By(w, AddEv(HrefOf(w))))
        /\ workers' = [workers EXCEPT ![w].pc = "parse"]
        /\ UNCHANGED <<images_path, reported>>
        /\ CallerIdle

\* thread w, lines 165-173: parse() of the resolved href, counter and throttle
ThreadParse ==
    \E w \in Threads :
        /\ workers[w].pc = "parse"
        /\ LET href == HrefOf(w)
               url == Resolve(href)
               bs == get_page(url, site_pages[1])
               title == safe_get(bs.title)
               body == safe_get(bs.body)
               imgs == FindImages(bs.anchors)
               c == workers[w].count + 1
           IN IF Fetched(bs) /\ bs = None
              THEN /\ log' = Append(log, By(w, GetEv("link", href, url, FALSE)))
                   /\ workers' = [workers EXCEPT ![w].pc = "raised"]
                   /\ UNCHANGED <<images_path, reported>>
              ELSE /\ images_path' = IF Fetched(bs) THEN Accumulate(imgs) ELSE images_path
                   /\ reported' = IF Fetched(bs) /\ Gate(title, body)
                                  THEN Append(reported, [run |-> w, url |-> url, title |-> title,
                                                         body |-> body, img |-> imgs])
                                  ELSE reported
                   /\ log' = Append(log, By(w, GetEv("link", href, url, bs # None)))
                               \o [k \in DOMAIN Throttle("link", CrawlSleeps(c), c)
                                     |-> By(w, Throttle("link", TRUE, c)[k])]
                   /\ workers' = [workers EXCEPT ![w].count = c, ![w].idx = @ + 1, ![w].pc = "loop"]
        /\ UNCHANGED visited
        /\ CallerIdle

\* thread w: the loop is exhausted, crawl() returns
ThreadReturn ==
    \E w \in Threads :
        /\ workers[w].pc = "loop"
        /\ workers[w].idx > Len(workers[w].target_pages)
        /\ workers' = [workers EXCEPT ![w].pc = "returned"]
        /\ UNCHANGED <<visited, images_path, reported, log>>
        /\ CallerIdle

ThreadNext ==
    \/ ThreadCrawl
    \/ ThreadCheck
    \/ ThreadSkip
    \/ ThreadAdd
    \/ ThreadParse
    \/ ThreadReturn

ThreadSpec == InitThreads /\ [][ThreadNext]_vars

\* C13: with two workers running the link processing of crawl() on one
\* Crawler, the test and the insertion on visited act as one indivisible
\* operation: no two workers are past the test of the same href at once, and
\* no href is fetched by more than one worker.
C13_AtMostOnceAcrossWorkers ==
    /\ \A v, w \in DOMAIN workers :
         (v # w /\ workers[v].pc = "add" /\ workers[w].pc = "add") => HrefOf(v) # HrefOf(w)
    /\ \A a, b \in Gets("link") : log[a].run # log[b].run => log[a].href # log[b].href

-----------------------------------------------------------------------------
(* Several Crawler instances, as in __main__: one Crawler per site, crawl()   *)
(* and img_download() called on it. heap holds the set objects, crawlers the  *)
(* references each instance's fields hold, acted the instance last used.      *)

\* both fields bound to the same two objects for every instance, as class-level
\* attributes would be
ClassLevelSets(h) == [visited |-> 1, images_path |-> 2]

\* __init__: self.visited = set(); self.images_path = set(), two new objects
FreshSets(h) == [visited |-> Len(h) + 1, images_path |-> Len(h) + 2]

\* the sets instance c holds
VisitedOf(h, cs, c) == h[cs[c].visited]
ImagesOf(h, cs, c) == h[cs[c].images_path]

\* crawl() past the seed fetch, run to its end on the sets vis and imgs
RECURSIVE CrawlAll(_, _, _, _)
CrawlAll(anchors, seedAnchors, vis, imgs) ==
    IF anchors = << >>
    THEN [visited |-> vis, images_path |-> imgs]
    ELSE LET href == Head(anchors)
             bs == get_page(Resolve(href), seedAnchors)
         IN IF href \in vis
            THEN CrawlAll(Tail(anchors), seedAnchors, vis, imgs)
            ELSE CrawlAll(Tail(anchors), seedAnchors, vis \cup {href},
                          IF Fetched(bs) THEN imgs \cup FindImages(bs.anchors) ELSE imgs)

InstanceIdle ==
    UNCHANGED <<absolute_url, site_pages, kindOf, visited, images_path, pc, target_pages,
                idx, count, visited0, queue, i, reported, log, workers>>

InitInstances ==
    /\ absolute_url \in BOOLEAN
    /\ site_pages = << >>
    /\ kindOf \in [{0, 1} -> Kinds]
    /\ visited = {}
    /\ images_path = {}
    /\ pc = "idle"
    /\ call = "none"
    /\ outcome = "none"
    /\ runs = 0
    /\ downloads = 0
    /\ target_pages = << >>
    /\ idx = 1
    /\ count = 0
    /\ visited0 = {}
    /\ queue = << >>
    /\ i = 0
    /\ files = {}
    /\ dir_exists = FALSE
    /\ reported = << >>
    /\ log = << >>
    /\ workers = << >>
    /\ heap = << >>
    /\ crawlers = << >>
    /\ acted = 0

\* crawler = Crawler(site)
Construct ==
    /\ Len(crawlers) < MaxCrawlers
    /\ crawlers' = Append(crawlers, FreshSets(heap))
    /\ heap' = heap \o <<{}, {}>>
    /\ acted' = Len(crawlers) + 1
    /\ call' = "Crawler"
    /\ outcome' = "returned"
    /\ UNCHANGED <<runs, downloads, files, dir_exists>>
    /\ InstanceIdle

\* crawler.crawl() on instance c, to its end
CrawlOn ==
    \E c \in DOMAIN crawlers :
        /\ runs < MaxRuns
        /\ runs' = runs + 1
        /\ acted' = c
        /\ call' = "crawl"
        /\ \E up \in BOOLEAN, seedAnchors \in ShortPages :
             LET bs == IF up THEN get_page(SeedURL, seedAnchors) ELSE None
                 end == CrawlAll(bs.anchors, seedAnchors, VisitedOf(heap, crawlers, c),
                                 ImagesOf(heap, crawlers, c))
             IN IF bs = None
                THEN /\ outcome' = "raised"
                     /\ UNCHANGED heap
                ELSE /\ outcome' = "returned"
                     /\ heap' = [[heap EXCEPT ![crawlers[c].visited] = end.visited]
                                       EXCEPT ![crawlers[c].images_path] = end.images_path]
        /\ UNCHANGED <<crawlers, downloads, files, dir_exists>>
        /\ InstanceIdle

\* crawler.img_download(save_dir) on instance c: the first n fetches succeed
ImgDownloadOn ==
    \E c \in DOMAIN crawlers :
        /\ downloads < MaxDownloads
        /\ downloads' = downloads + 1
        /\ acted' = c
        /\ call' = "img_download"
        /\ dir_exists' = TRUE
        /\ \E q \in Orders(ImagesOf(heap, crawlers, c)) :
             \E n \in 0..Len(q) :
               /\ files' = { f \in files : f.index \notin { FileIndex(k) : k \in 0..(n - 1) } }
                             \cup { [index |-> FileIndex(k), url |-> q[k + 1]] : k \in 0..(n - 1) }
               /\ outcome' = IF n = Len(q) THEN "returned" ELSE "raised"
        /\ UNCHANGED <<heap, crawlers, runs>>
        /\ InstanceIdle

InstanceNext ==
    \/ Construct
    \/ CrawlOn
    \/ ImgDownloadOn

InstanceSpec == InitInstances /\ [][InstanceNext]_vars

\* C18: visited and images_path belong to one Crawler instance. A crawl() or
\* img_download() on one instance, or the construction of another, leaves the
\* two sets of every other instance as they were, and an instance just
\* constructed has both sets empty whatever the earlier instances hold.
C18_SetsScopedToInstance ==
    [][ /\ \A c \in DOMAIN crawlers :
             c # acted' => /\ VisitedOf(heap', crawlers', c) = VisitedOf(heap, crawlers, c)
                           /\ ImagesOf(heap', crawlers', c) = ImagesOf(heap, crawlers, c)
        /\ \A c \in DOMAIN crawlers' \ DOMAIN crawlers :
             /\ VisitedOf(heap', crawlers', c) = {}
             /\ ImagesOf(heap', crawlers', c) = {} ]_vars

\* two instances, the second constructed and used after the first was filled,
\* holding different sets, and an img_download() made
C18_Witness ==
    /\ Len(crawlers) >= 2
    /\ VisitedOf(heap, crawlers, 1) # {}
    /\ ImagesOf(heap, crawlers, 1) # {}
    /\ VisitedOf(heap, crawlers, 2) # {}
    /\ VisitedOf(heap, crawlers, 2) # VisitedOf(heap, crawlers, 1)
    /\ acted = 2
    /\ call = "img_download"

====
